---- MODULE Spec2Model ----
(***************************************************************************)
(* critter_finder.py: fetch wildlife observations, attach the weather of   *)
(* the day of each sighting, plot them on a map and chart the weather per  *)
(* species.                                                                *)
(*                                                                         *)
(* The main thread runs main(); the spinner thread runs animate().  The    *)
(* three upstream services (biodiversity API, climate API, image host)     *)
(* and the console are the environment: what they answer is drawn from     *)
(* bounded sets.                                                           *)
(*                                                                         *)
(* Conventions.  A Python value that may be None or a missing key is a     *)
(* sequence of length at most one: <<>> is None / absent, <<v>> is v.      *)
(* A call's outcome is [kind, exc, value]: kind "return" with its value,   *)
(* or kind "raise" with the exception that leaves the function.            *)
(* Times are whole hours.  Temperatures are integers and precipitation is  *)
(* counted in tenths of an inch, so sums are exact.                        *)
(***************************************************************************)
EXTENDS Integers, Sequences, FiniteSets, TLC

VARIABLES
    pc,            \* where the main thread is
    exc,           \* the exception that ended the run, "" if none
    taxonInput,    \* <<>> until read, then <<text typed at the first prompt>>
    countInput,    \* the same for the second prompt
    printed,       \* the messages written to the console so far
    spinner,       \* where the spinner thread is
    frame,         \* the spinner's place in itertools.cycle
    done,          \* the module-level flag
    now,           \* datetime.today(), local wall clock, in hours
    tzLocal,       \* the UTC offset of the machine's local time, in hours
    bioOutcome,    \* <<>> until the biodiversity API answered, then <<kind>>
    bioReqs,       \* requests issued to the biodiversity API
    climateReqs,   \* requests issued to the climate API
    imageReqs,     \* requests issued to the image host
    nrecords,      \* records of the biodiversity response consumed so far
    lastRec,       \* the record the collector's loop body last looked at
    observations,  \* the mapping observation id -> observation data
    todo,          \* ids the current for-loop still has to visit
    lookup,        \* id -> how the climate API answered for it
    files,         \* names (observation ids) of the .jpg files on disk
    shown,         \* ids whose thumbnail was added to the map
    aggResult,     \* outcome of plot_weather_data
    apiOutcome,    \* the climate API answer get_weather_for_observation is called on
    weatherResult  \* outcome of get_weather_for_observation for apiOutcome

vars == <<pc, exc, taxonInput, countInput, printed, spinner, frame, done, now,
          tzLocal, bioOutcome, bioReqs, climateReqs, imageReqs, nrecords,
          lastRec, observations, todo, lookup, files, shown,
          aggResult, apiOutcome, weatherResult>>

----------------------------------------------------------------------------
(* Bounds of the model *)

\* records of one biodiversity response
MaxRecords == 2
\* records of one climate response
MaxResults == 2
\* observations in a mapping handed to plot_weather_data in SpecAgg
MaxObs == 2

(* Program constants *)

\* relativedelta(days=2)
CutoffDays == 2
\* len(["|", "/", "-", "\\"])
SpinnerFrames == 4

----------------------------------------------------------------------------
(* Python values *)

None == <<>>
Some(v) == <<v>>
IsNone(x) == Len(x) = 0
Val(x) == x[1]

Return(v) == [kind |-> "return", exc |-> "", value |-> v]
Raise(e) == [kind |-> "raise", exc |-> e, value |-> None]
Pending == [kind |-> "pending", exc |-> "", value |-> None]

\* ascending list of a finite set of integers (dict insertion order)
RECURSIVE SortedSeq(_)
SortedSeq(S) ==
    IF S = {} THEN <<>>
    ELSE LET m == CHOOSE x \in S : \A y \in S : x <= y
         IN  <<m>> \o SortedSeq(S \ {m})

\* all sequences over S of length at most n
SeqUpTo(S, n) == UNION {[1..k -> S] : k \in 0..n}

----------------------------------------------------------------------------
(* get_weather_for_observation *)

\* a weather dict, or None (present = FALSE)
NoWeather == [present |-> FALSE, avg_temp |-> None, rain |-> None]
Sample(t, r) == [present |-> TRUE, avg_temp |-> t, rain |-> r]

\* requests.RequestException and its subclasses, as raised by requests.get
\* (ConnectionError, Timeout), raise_for_status (HTTPError) and
\* response.json (JSONDecodeError)
RequestExceptions == {"ConnectionError", "Timeout", "HTTPError", "JSONDecodeError"}

\* what requests.get + raise_for_status + json() raise for an answer, "" if nothing
HttpError(o) ==
    IF o.transport # "ok" THEN o.transport
    ELSE IF o.status >= 400 THEN "HTTPError"
    ELSE IF ~o.json THEN "JSONDecodeError"
    ELSE ""

\* weather[key] = record["value"]
StoreFirst(old, v) == IF IsNone(old) THEN Some(v) ELSE old
Store(old, v) == Some(v)

\* the body of "for record in data['results']"
RECURSIVE WeatherLoop(_, _, _)
WeatherLoop(results, i, w) ==
    IF i > Len(results) THEN Return(w)
    ELSE LET record == results[i] IN
         IF IsNone(record.datatype) THEN Raise("KeyError")
         ELSE IF Val(record.datatype) = "TAVG" THEN
             IF IsNone(record.value) THEN Raise("KeyError")
             ELSE WeatherLoop(results, i + 1,
                      [w EXCEPT !.avg_temp = Store(w.avg_temp, Val(record.value))])
         ELSE IF Val(record.datatype) = "PRCP" THEN
             IF IsNone(record.value) THEN Raise("KeyError")
             ELSE WeatherLoop(results, i + 1,
                      [w EXCEPT !.rain = Store(w.rain, Val(record.value))])
         ELSE WeatherLoop(results, i + 1, w)

\* except requests.RequestException (in get_weather_for_observation)
WeatherCatches(e) == e \in RequestExceptions

get_weather_for_observation(o) ==
    LET e == HttpError(o) IN
    IF e # "" THEN (IF WeatherCatches(e) THEN Return(NoWeather) ELSE Raise(e))
    ELSE IF ~o.has_results THEN Raise("KeyError")
    ELSE WeatherLoop(o.results, 1, Sample(None, None))

\* the answers of the climate API
ClimateValues == {1, 2}
ClimateDatatypes == {None, Some("TAVG"), Some("PRCP"), Some("TMAX")}
ClimateRecords ==
    [datatype : ClimateDatatypes, value : {None} \cup {Some(v) : v \in ClimateValues}]
ClimateBody(rs) ==
    [transport |-> "ok", status |-> 200, json |-> TRUE, has_results |-> TRUE, results |-> rs]
ClimateFailure(t, s, j, h) ==
    [transport |-> t, status |-> s, json |-> j, has_results |-> h, results |-> <<>>]
ClimateFailures ==
    { ClimateFailure("ConnectionError", 200, TRUE, TRUE),
      ClimateFailure("Timeout", 200, TRUE, TRUE),
      ClimateFailure("ok", 404, TRUE, TRUE),
      ClimateFailure("ok", 500, TRUE, TRUE),
      ClimateFailure("ok", 200, FALSE, TRUE),
      ClimateFailure("ok", 200, TRUE, FALSE) }
ClimateOutcomes ==
    ClimateFailures \cup {ClimateBody(rs) : rs \in SeqUpTo(ClimateRecords, MaxResults)}

----------------------------------------------------------------------------
(* get_inaturalist_observations *)

\* datetime.today() - relativedelta(days=2)
Cutoff(t) == t - CutoffDays * 24

\* time_observed_at: null, a string fromisoformat rejects, or an ISO-8601
\* timestamp: the wall-clock reading it writes and the UTC offset it carries
NullTime == [kind |-> "null", wall |-> 0, offset |-> 0]
BadTime == [kind |-> "malformed", wall |-> 0, offset |-> 0]
IsoTime(w, o) == [kind |-> "iso", wall |-> w, offset |-> o]

\* datetime.fromisoformat(s).replace(tzinfo=None): the offset is dropped, the
\* wall-clock reading is kept as it is written
Naive(t) == t.wall

\* fromisoformat(...) < datetime.today() - relativedelta(days=2)
OlderOrEqual(t, n) == Naive(t) <= Cutoff(n)
Older(t, n) == Naive(t) < Cutoff(n)

\* place_guess: key absent (the .get default ""), null, or a text in which
\* the ZIP pattern matches zip (None: no match)
PlaceAbsent == [kind |-> "absent", zip |-> None]
PlaceNull == [kind |-> "null", zip |-> None]
PlaceText(z) == [kind |-> "text", zip |-> z]

NewObservation(rec) ==
    [datetime |-> rec.time, species |-> rec.species,
     zip_code |-> Val(rec.place.zip), weather |-> NoWeather]

\* observations[observation_id] = observation_data
Put(obs, id, data) ==
    [k \in DOMAIN obs \cup {id} |-> IF k = id THEN data ELSE obs[k]]

\* the body of "for observation in observation_response"
CollectorBody(rec, obs, n) ==
    IF rec.time.kind = "null" THEN Return(obs)
    ELSE IF rec.time.kind = "malformed" THEN Raise("ValueError")
    ELSE IF ~Older(rec.time, n) THEN Return(obs)
    ELSE IF rec.place.kind = "null" THEN Raise("TypeError")
    ELSE IF IsNone(rec.place.zip) THEN Return(obs)
    ELSE IF rec.photos = 0 THEN Raise("IndexError")
    ELSE Return(Put(obs, rec.id, NewObservation(rec)))

\* except requests.RequestException (in get_inaturalist_observations)
CollectorCatches(e) == e \in RequestExceptions

\* the answers of the biodiversity API: what requests.get, raise_for_status
\* and response.json()["results"] do with them
BioFailures == {"ConnectionError", "HTTPError", "JSONDecodeError"}
BioOutcomes == BioFailures \cup {"no_results_key", "ok"}

ObsIds == {1, 2}
TzOffsets == {-8, 0}
BioTimes(n) ==
    {NullTime, BadTime}
        \cup {IsoTime(w, o) : w \in {Cutoff(n) - 1, Cutoff(n), Cutoff(n) + 1},
                              o \in TzOffsets}
BioPlaces == {PlaceAbsent, PlaceNull, PlaceText(None), PlaceText(Some("12345"))}
BioRecords(n) ==
    [id : ObsIds, time : BioTimes(n), place : BioPlaces,
     species : {"", "a"}, photos : {0, 1}]
\* the records the whole run draws from
MainRecords(n) ==
    [id : ObsIds, time : {NullTime, IsoTime(Cutoff(n) - 1, 0), IsoTime(Cutoff(n) + 1, 0)},
     place : {PlaceText(Some("12345"))}, species : {"a", "b"}, photos : {1}]
NoRecord ==
    [id |-> 0, time |-> NullTime, place |-> PlaceAbsent, species |-> "", photos |-> 0]

----------------------------------------------------------------------------
(* download_image and the loop of plot_observations_on_map *)

\* the answers of the image host: requests.get or raise_for_status raise,
\* iter_content raises after open() created the file, the bytes arrive and
\* are an image, the bytes arrive and PIL cannot read them
DownloadOutcomes == {"ConnectionError", "HTTPError", "stream_error", "ok", "not_image"}

\* download_image: the path it returns (None after a caught error) and the
\* files on disk afterwards
download_image(d, id, fs) ==
    IF d \in {"ConnectionError", "HTTPError"} THEN [path |-> None, files |-> fs]
    ELSE IF d = "stream_error" THEN [path |-> None, files |-> fs \cup {id}]
    ELSE [path |-> Some(id), files |-> fs \cup {id}]

----------------------------------------------------------------------------
(* plot_weather_data *)

\* ids of the observations the grouping loop appends samples for, in dict order
Grouped(obs) ==
    SelectSeq(SortedSeq(DOMAIN obs),
              LAMBDA k : obs[k].species # "" /\ obs[k].weather.present)

\* species_weather[species]["avg_temp"] and ["rain"]
RECURSIVE TempsOf(_, _, _)
TempsOf(obs, ks, s) ==
    IF ks = <<>> THEN <<>>
    ELSE (IF obs[Head(ks)].species = s THEN <<obs[Head(ks)].weather.avg_temp>> ELSE <<>>)
             \o TempsOf(obs, Tail(ks), s)
RECURSIVE RainsOf(_, _, _)
RainsOf(obs, ks, s) ==
    IF ks = <<>> THEN <<>>
    ELSE (IF obs[Head(ks)].species = s THEN <<obs[Head(ks)].weather.rain>> ELSE <<>>)
             \o RainsOf(obs, Tail(ks), s)

\* the keys of species_weather in insertion order
RECURSIVE SpeciesOrder(_, _, _)
SpeciesOrder(obs, ks, seen) ==
    IF ks = <<>> THEN <<>>
    ELSE LET s == obs[Head(ks)].species IN
         IF s \in seen THEN SpeciesOrder(obs, Tail(ks), seen)
         ELSE <<s>> \o SpeciesOrder(obs, Tail(ks), seen \cup {s})

\* sum(xs): adding None to a number is a TypeError
RECURSIVE PySumSkipNone(_)
PySumSkipNone(xs) ==
    IF xs = <<>> THEN Return(0)
    ELSE LET rest == PySumSkipNone(Tail(xs)) IN
         IF IsNone(Head(xs)) THEN rest ELSE Return(Val(Head(xs)) + rest.value)
RECURSIVE PySum(_)
PySum(xs) ==
    IF xs = <<>> THEN Return(0)
    ELSE IF IsNone(Head(xs)) THEN Raise("TypeError")
    ELSE LET rest == PySum(Tail(xs)) IN
         IF rest.kind = "raise" THEN rest ELSE Return(Val(Head(xs)) + rest.value)

\* int(a / n): true division, then truncation toward zero
IntDiv(a, n) == IF a >= 0 THEN a \div n ELSE -((-a) \div n)

\* the aggregated_data comprehension over the filtered species_weather
RECURSIVE AggregateRows(_, _, _)
AggregateRows(obs, ks, ss) ==
    IF ss = <<>> THEN Return(<<>>)
    ELSE LET s == Head(ss)
             temps == TempsOf(obs, ks, s)
             rains == RainsOf(obs, ks, s)
         IN  IF ~(s # "" /\ Len(temps) > 0 /\ Len(rains) > 0)
             THEN AggregateRows(obs, ks, Tail(ss))
             ELSE LET t == PySum(temps)
                      r == PySum(rains)
                      rest == AggregateRows(obs, ks, Tail(ss))
                  IN  IF t.kind = "raise" THEN t
                      ELSE IF r.kind = "raise" THEN r
                      ELSE IF rest.kind = "raise" THEN rest
                      ELSE Return(<<[species |-> s,
                                     avg_temp |-> IntDiv(t.value, Len(temps)),
                                     rain |-> r.value]>> \o rest.value)

\* plot_weather_data up to plt.show(): the rows of df_weather
plot_weather_data(obs) ==
    LET ks == Grouped(obs)
        rows == AggregateRows(obs, ks, SpeciesOrder(obs, ks, {}))
    IN  IF rows.kind = "raise" THEN rows
        ELSE IF rows.value = <<>> THEN Raise("KeyError")
        ELSE rows

----------------------------------------------------------------------------
(* main: the console prompts *)

\* the texts int() accepts among those typed
IntLiterals == {"12", " 7 ", "-3"}
ConsoleInputs == IntLiterals \cup {"abc", "1.5", ""}

\* int(input(...)) raises ValueError unless the text is an integer literal
IntParsesAnything(s) == TRUE
IntParses(s) == s \in IntLiterals

\* "if not observations"
NoObservationsNever(obs) == FALSE
NoObservations(obs) == DOMAIN obs = {}

Terminal == {"returned", "exited", "crashed"}

Crash(e) == pc' = "crashed" /\ exc' = e

PromptTaxon ==
    /\ pc = "prompt_taxon"
    /\ \E s \in ConsoleInputs :
        /\ taxonInput' = Some(s)
        /\ IF IntParses(s)
           THEN pc' = "prompt_count" /\ printed' = printed
           ELSE pc' = "exited" /\ printed' = printed \cup {"invalid"}
    /\ UNCHANGED <<exc, countInput, spinner, frame, done, now, tzLocal, bioOutcome,
                   bioReqs, climateReqs, imageReqs, nrecords, lastRec, observations,
                   todo, lookup, files, shown, aggResult, apiOutcome, weatherResult>>

PromptCount ==
    /\ pc = "prompt_count"
    /\ \E s \in ConsoleInputs :
        /\ countInput' = Some(s)
        /\ IF IntParses(s)
           THEN pc' = "start_spinner" /\ printed' = printed
           ELSE pc' = "exited" /\ printed' = printed \cup {"invalid"}
    /\ UNCHANGED <<exc, taxonInput, spinner, frame, done, now, tzLocal, bioOutcome,
                   bioReqs, climateReqs, imageReqs, nrecords, lastRec, observations,
                   todo, lookup, files, shown, aggResult, apiOutcome, weatherResult>>

\* t = threading.Thread(target=animate, daemon=True); t.start()
StartSpinner ==
    /\ pc = "start_spinner"
    /\ spinner' = "polling"
    /\ pc' = "call_collector"
    /\ UNCHANGED <<exc, taxonInput, countInput, printed, frame, done, now, tzLocal,
                   bioOutcome, bioReqs, climateReqs, imageReqs, nrecords, lastRec,
                   observations, todo, lookup, files, shown, aggResult, apiOutcome,
                   weatherResult>>

----------------------------------------------------------------------------
(* animate, and the end of the process *)

\* one turn of the loop: test the flag, else write a frame and sleep
SpinnerPoll ==
    /\ spinner = "polling"
    /\ IF done
       THEN spinner' = "leaving" /\ UNCHANGED <<frame, printed>>
       ELSE /\ frame' = (frame + 1) % SpinnerFrames
            /\ printed' = printed \cup {"loading"}
            /\ UNCHANGED spinner
    /\ UNCHANGED <<pc, exc, taxonInput, countInput, done, now, tzLocal, bioOutcome,
                   bioReqs, climateReqs, imageReqs, nrecords, lastRec, observations,
                   todo, lookup, files, shown, aggResult, apiOutcome, weatherResult>>

\* sys.stdout.write("\rDone!          \n") and the thread ends
SpinnerFinish ==
    /\ spinner = "leaving"
    /\ printed' = printed \cup {"Done!"}
    /\ spinner' = "terminated"
    /\ UNCHANGED <<pc, exc, taxonInput, countInput, frame, done, now, tzLocal,
                   bioOutcome, bioReqs, climateReqs, imageReqs, nrecords, lastRec,
                   observations, todo, lookup, files, shown, aggResult, apiOutcome,
                   weatherResult>>

\* the main thread has ended: the interpreter exits and stops the daemon thread
ProcessExit ==
    /\ pc \in Terminal
    /\ spinner \in {"polling", "leaving"}
    /\ spinner' = "killed"
    /\ UNCHANGED <<pc, exc, taxonInput, countInput, printed, frame, done, now, tzLocal,
                   bioOutcome, bioReqs, climateReqs, imageReqs, nrecords, lastRec,
                   observations, todo, lookup, files, shown, aggResult, apiOutcome,
                   weatherResult>>

----------------------------------------------------------------------------
(* main: the collector *)

\* requests.get, raise_for_status, response.json()["results"]
CallCollector ==
    /\ pc = "call_collector"
    /\ bioReqs' = bioReqs + 1
    /\ observations' = <<>>
    /\ \E b \in BioOutcomes :
        /\ bioOutcome' = Some(b)
        /\ IF b = "ok" THEN pc' = "collecting" /\ UNCHANGED <<exc, printed>>
           ELSE IF b = "no_results_key" THEN Crash("KeyError") /\ UNCHANGED printed
           ELSE IF CollectorCatches(b)
                THEN /\ pc' = "check_observations"
                     /\ printed' = printed \cup {"error_inaturalist"}
                     /\ UNCHANGED exc
                ELSE Crash(b) /\ UNCHANGED printed
    /\ UNCHANGED <<taxonInput, countInput, spinner, frame, done, now, tzLocal,
                   climateReqs, imageReqs, nrecords, lastRec, todo, lookup, files,
                   shown, aggResult, apiOutcome, weatherResult>>

\* one turn of the loop over the response, for a record drawn from recs
CollectorStepOver(recs) ==
    /\ pc = "collecting"
    /\ nrecords < MaxRecords
    /\ nrecords' = nrecords + 1
    /\ \E rec \in recs :
        LET r == CollectorBody(rec, observations, now) IN
        /\ lastRec' = rec
        /\ IF r.kind = "raise"
           THEN Crash(r.exc) /\ UNCHANGED observations
           ELSE observations' = r.value /\ UNCHANGED <<pc, exc>>
    /\ UNCHANGED <<taxonInput, countInput, printed, spinner, frame, done, now, tzLocal,
                   bioOutcome, bioReqs, climateReqs, imageReqs, todo, lookup, files,
                   shown, aggResult, apiOutcome, weatherResult>>

CollectorStep == CollectorStepOver(MainRecords(now))

\* the response is exhausted: return observations
CollectorReturn ==
    /\ pc = "collecting"
    /\ pc' = "check_observations"
    /\ lastRec' = NoRecord
    /\ UNCHANGED <<exc, taxonInput, countInput, printed, spinner, frame, done, now,
                   tzLocal, bioOutcome, bioReqs, climateReqs, imageReqs, nrecords,
                   observations, todo, lookup, files, shown, aggResult, apiOutcome,
                   weatherResult>>

\* if not observations: print("No observations found."); return
CheckObservations ==
    /\ pc = "check_observations"
    /\ IF NoObservations(observations)
       THEN pc' = "returned" /\ printed' = printed \cup {"none_found"} /\ UNCHANGED todo
       ELSE pc' = "enriching" /\ todo' = SortedSeq(DOMAIN observations) /\ UNCHANGED printed
    /\ UNCHANGED <<exc, taxonInput, countInput, spinner, frame, done, now, tzLocal,
                   bioOutcome, bioReqs, climateReqs, imageReqs, nrecords, lastRec,
                   observations, lookup, files, shown, aggResult, apiOutcome,
                   weatherResult>>

----------------------------------------------------------------------------
(* main: the enrichment loop, done and join *)

\* the climate answers the whole run draws from
MainClimateOutcomes ==
    { ClimateFailure("ConnectionError", 200, TRUE, TRUE),
      ClimateFailure("ok", 500, TRUE, TRUE),
      ClimateFailure("ok", 200, TRUE, FALSE),
      ClimateBody(<<>>),
      ClimateBody(<<[datatype |-> Some("TAVG"), value |-> Some(1)]>>),
      ClimateBody(<<[datatype |-> Some("TAVG"), value |-> Some(1)],
                    [datatype |-> Some("PRCP"), value |-> Some(2)]>>) }

\* how an answer of the climate API is remembered in lookup
LookupKind(o) ==
    IF o.transport # "ok" THEN "transport_error"
    ELSE IF o.status >= 400 THEN "http_error"
    ELSE IF ~o.json \/ ~o.has_results THEN "malformed"
    ELSE "ok"

\* observation["weather"] = get_weather_for_observation(...)
EnrichNext ==
    /\ pc = "enriching"
    /\ todo # <<>>
    /\ climateReqs' = climateReqs + 1
    /\ \E o \in MainClimateOutcomes :
        LET id == Head(todo)
            r == get_weather_for_observation(o)
        IN  /\ lookup' = Put(lookup, id, LookupKind(o))
            /\ IF r.kind = "raise"
               THEN Crash(r.exc) /\ UNCHANGED <<observations, todo, printed>>
               ELSE /\ observations' = [observations EXCEPT ![id].weather = r.value]
                    /\ todo' = Tail(todo)
                    /\ printed' = IF r.value.present THEN printed
                                  ELSE printed \cup {"error_noaa"}
                    /\ UNCHANGED <<pc, exc>>
    /\ UNCHANGED <<taxonInput, countInput, spinner, frame, done, now, tzLocal,
                   bioOutcome, bioReqs, imageReqs, nrecords, lastRec, files, shown,
                   aggResult, apiOutcome, weatherResult>>

\* global done; done = True
SetDone ==
    /\ pc = "enriching"
    /\ todo = <<>>
    /\ done' = TRUE
    /\ pc' = "join"
    /\ UNCHANGED <<exc, taxonInput, countInput, printed, spinner, frame, now, tzLocal,
                   bioOutcome, bioReqs, climateReqs, imageReqs, nrecords, lastRec,
                   observations, todo, lookup, files, shown, aggResult, apiOutcome,
                   weatherResult>>

\* t.join() returns once the spinner thread has ended
Join ==
    /\ pc = "join"
    /\ spinner = "terminated"
    /\ pc' = "plot_map"
    /\ UNCHANGED <<exc, taxonInput, countInput, printed, spinner, frame, done, now,
                   tzLocal, bioOutcome, bioReqs, climateReqs, imageReqs, nrecords,
                   lastRec, observations, todo, lookup, files, shown, aggResult,
                   apiOutcome, weatherResult>>

----------------------------------------------------------------------------
(* main: plot_observations_on_map *)

\* figure, bounding box (min() of an empty list is a ValueError), basemap, colours
PlotMapSetup ==
    /\ pc = "plot_map"
    /\ IF DOMAIN observations = {}
       THEN Crash("ValueError") /\ UNCHANGED todo
       ELSE pc' = "mapping" /\ todo' = SortedSeq(DOMAIN observations) /\ UNCHANGED exc
    /\ UNCHANGED <<taxonInput, countInput, printed, spinner, frame, done, now, tzLocal,
                   bioOutcome, bioReqs, climateReqs, imageReqs, nrecords, lastRec,
                   observations, lookup, files, shown, aggResult, apiOutcome,
                   weatherResult>>

\* one turn of "for obs_id, obs in observations.items()"
MapStep ==
    /\ pc = "mapping"
    /\ todo # <<>>
    /\ imageReqs' = imageReqs + 1
    /\ \E d \in DownloadOutcomes :
        LET id == Head(todo)
            dl == download_image(d, id, files)
        IN  IF IsNone(dl.path)
            THEN /\ files' = dl.files
                 /\ todo' = Tail(todo)
                 /\ printed' = printed \cup {"error_image"}
                 /\ UNCHANGED <<pc, exc, shown>>
            ELSE IF d = "not_image"
            THEN /\ files' = dl.files
                 /\ Crash("UnidentifiedImageError")
                 /\ UNCHANGED <<todo, printed, shown>>
            ELSE /\ shown' = shown \cup {id}
                 /\ files' = dl.files \ {Val(dl.path)}
                 /\ todo' = Tail(todo)
                 /\ UNCHANGED <<pc, exc, printed>>
    /\ UNCHANGED <<taxonInput, countInput, spinner, frame, done, now, tzLocal,
                   bioOutcome, bioReqs, climateReqs, nrecords, lastRec, observations,
                   lookup, aggResult, apiOutcome, weatherResult>>

\* the legend, then return fig, ax
MapReturn ==
    /\ pc = "mapping"
    /\ todo = <<>>
    /\ pc' = "aggregate"
    /\ UNCHANGED <<exc, taxonInput, countInput, printed, spinner, frame, done, now,
                   tzLocal, bioOutcome, bioReqs, climateReqs, imageReqs, nrecords,
                   lastRec, observations, todo, lookup, files, shown, aggResult,
                   apiOutcome, weatherResult>>

----------------------------------------------------------------------------
(* main: plot_weather_data *)

PlotWeatherData ==
    /\ pc = "aggregate"
    /\ aggResult' = plot_weather_data(observations)
    /\ IF aggResult'.kind = "raise"
       THEN Crash(aggResult'.exc) /\ UNCHANGED printed
       ELSE pc' = "returned" /\ printed' = printed \cup {"charts"} /\ UNCHANGED exc
    /\ UNCHANGED <<taxonInput, countInput, spinner, frame, done, now, tzLocal,
                   bioOutcome, bioReqs, climateReqs, imageReqs, nrecords, lastRec,
                   observations, todo, lookup, files, shown, apiOutcome, weatherResult>>

----------------------------------------------------------------------------
(* The whole run *)

Idle ==
    /\ exc = ""
    /\ printed = {}
    /\ frame = 0
    /\ bioOutcome = None
    /\ bioReqs = 0 /\ climateReqs = 0 /\ imageReqs = 0
    /\ nrecords = 0 /\ lastRec = NoRecord
    /\ todo = <<>> /\ lookup = <<>>
    /\ files = {} /\ shown = {}
    /\ aggResult = Pending
    /\ weatherResult = Pending

\* both prompts answered with integers, the spinner thread running
Started ==
    /\ taxonInput = Some("12") /\ countInput = Some(" 7 ")
    /\ spinner = "polling" /\ done = FALSE

\* the enrichment loop over: flag set, spinner thread joined
Joined ==
    /\ taxonInput = Some("12") /\ countInput = Some(" 7 ")
    /\ spinner = "terminated" /\ done = TRUE

Init ==
    /\ Idle
    /\ taxonInput = None /\ countInput = None
    /\ spinner = "unstarted" /\ done = FALSE
    /\ apiOutcome = ClimateBody(<<>>)
    /\ pc = "prompt_taxon"
    /\ now = 100 /\ tzLocal = 0
    /\ observations = <<>>

Next ==
    \/ PromptTaxon \/ PromptCount \/ StartSpinner
    \/ SpinnerPoll \/ SpinnerFinish \/ ProcessExit
    \/ CallCollector \/ CollectorStep \/ CollectorReturn \/ CheckObservations
    \/ EnrichNext \/ SetDone \/ Join
    \/ PlotMapSetup \/ MapStep \/ MapReturn
    \/ PlotWeatherData

Spec == Init /\ [][Next]_vars

----------------------------------------------------------------------------
(* get_inaturalist_observations on its own, over every record shape *)

CollectorStepAny == CollectorStepOver(BioRecords(now))

InitCollect ==
    /\ Idle /\ Started
    /\ apiOutcome = ClimateBody(<<>>)
    /\ pc = "call_collector"
    /\ now = 100 /\ tzLocal \in TzOffsets
    /\ observations = <<>>

NextCollect == CallCollector \/ CollectorStepAny \/ CollectorReturn

SpecCollect == InitCollect /\ [][NextCollect]_vars

----------------------------------------------------------------------------
(* get_weather_for_observation on its own, over every answer *)

CallGetWeather ==
    /\ pc = "call_weather"
    /\ climateReqs' = climateReqs + 1
    /\ weatherResult' = get_weather_for_observation(apiOutcome)
    /\ IF weatherResult'.kind = "raise"
       THEN Crash(weatherResult'.exc)
       ELSE pc' = "returned" /\ UNCHANGED exc
    /\ UNCHANGED <<taxonInput, countInput, printed, spinner, frame, done, now, tzLocal,
                   bioOutcome, bioReqs, imageReqs, nrecords, lastRec, observations,
                   todo, lookup, files, shown, aggResult, apiOutcome>>

InitWeather ==
    /\ Idle /\ Started
    /\ apiOutcome \in ClimateOutcomes
    /\ pc = "call_weather"
    /\ now = 100 /\ tzLocal = 0
    /\ observations = <<>>

NextWeather == CallGetWeather

SpecWeather == InitWeather /\ [][NextWeather]_vars

----------------------------------------------------------------------------
(* plot_weather_data on its own, over every enriched mapping *)

AggTemps == {-3, 0, 70}
AggRains == {1, 2}
AggWeathers ==
    {NoWeather} \cup
    {Sample(t, r) : t \in {None} \cup {Some(v) : v \in AggTemps},
                    r \in {None} \cup {Some(v) : v \in AggRains}}
AggObservations ==
    [datetime : {IsoTime(0, 0)}, species : {"", "a", "b"},
     zip_code : {"12345"}, weather : AggWeathers]
AggMappings == UNION {[1..k -> AggObservations] : k \in 1..MaxObs}

InitAgg ==
    /\ Idle /\ Joined
    /\ apiOutcome = ClimateBody(<<>>)
    /\ pc = "aggregate"
    /\ now = 100 /\ tzLocal = 0
    /\ observations \in AggMappings

NextAgg == PlotWeatherData

SpecAgg == InitAgg /\ [][NextAgg]_vars

----------------------------------------------------------------------------
(* Properties of plot_weather_data (SpecAgg) *)

Abs(a) == IF a >= 0 THEN a ELSE -a

\* the integer part of a / n
Truncated(a, n) ==
    CHOOSE q \in -Abs(a)..Abs(a) :
        /\ Abs(q) * n <= Abs(a)
        /\ (Abs(q) + 1) * n > Abs(a)
        /\ q * a >= 0

RECURSIVE SumOver(_, _, _)
SumOver(obs, field, S) ==
    IF S = {} THEN 0
    ELSE LET k == CHOOSE x \in S : TRUE
         IN  Val(obs[k].weather[field]) + SumOver(obs, field, S \ {k})

\* the observations of species s that carry a non-null sample of a field
SamplesWith(obs, field, s) ==
    {k \in DOMAIN obs : /\ obs[k].species = s
                        /\ obs[k].weather.present
                        /\ ~IsNone(obs[k].weather[field])}

Labels(obs) == {obs[k].species : k \in DOMAIN obs} \ {""}

Rows == IF aggResult.kind = "return" THEN aggResult.value ELSE <<>>
RowSpecies == {Rows[i].species : i \in 1..Len(Rows)}

\* C1: once the aggregator has run, every species with at least one non-null
\* avg_temp sample and one non-null rain sample has a row whose mean_temp is the
\* truncated mean of its non-null avg_temp samples and whose total_rain is the
\* sum of its non-null rain samples; null samples are left out and the
\* aggregation completes.
C1_NullSamplesLeftOut ==
    aggResult.kind # "pending" =>
        \A s \in Labels(observations) :
            LET ts == SamplesWith(observations, "avg_temp", s)
                rs == SamplesWith(observations, "rain", s)
            IN  (ts # {} /\ rs # {}) =>
                    /\ aggResult.kind = "return"
                    /\ \E i \in 1..Len(Rows) :
                        /\ Rows[i].species = s
                        /\ Rows[i].avg_temp =
                               Truncated(SumOver(observations, "avg_temp", ts),
                                         Cardinality(ts))
                        /\ Rows[i].rain = SumOver(observations, "rain", rs)

\* C2: a species is in an aggregate row only if it has at least one non-null
\* avg_temp sample and at least one non-null rain sample; a species whose
\* temperature samples, or whose rain samples, are all null is in no row.
C2_EmittedOnlyWithBothSamples ==
    \A s \in RowSpecies :
        /\ s # ""
        /\ SamplesWith(observations, "avg_temp", s) # {}
        /\ SamplesWith(observations, "rain", s) # {}

\* the aggregator has emitted rows, and a labelled species without any sample
\* is in none of them
C2_Witness ==
    /\ aggResult.kind = "return"
    /\ Len(Rows) > 0
    /\ \E s \in Labels(observations) :
        /\ SamplesWith(observations, "avg_temp", s) = {}
        /\ s \notin RowSpecies

----------------------------------------------------------------------------
(* Properties of get_weather_for_observation (SpecWeather) *)

\* the positions of the records of a datatype
Positions(rs, dt) == {i \in 1..Len(rs) : rs[i].datatype = Some(dt)}
Least(S) == CHOOSE x \in S : \A y \in S : x <= y
Greatest(S) == CHOOSE x \in S : \A y \in S : x >= y
FirstValue(rs, dt) ==
    IF Positions(rs, dt) = {} THEN None ELSE rs[Least(Positions(rs, dt))].value
LastValue(rs, dt) ==
    IF Positions(rs, dt) = {} THEN None ELSE rs[Greatest(Positions(rs, dt))].value

\* a record the loop cannot read
Unreadable(rec) ==
    \/ IsNone(rec.datatype)
    \/ rec.datatype \in {Some("TAVG"), Some("PRCP")} /\ IsNone(rec.value)

\* a network failure, a non-2xx status or a malformed body
FailedAnswer(o) ==
    \/ o.transport # "ok"
    \/ o.status >= 400
    \/ ~o.json
    \/ ~o.has_results
    \/ \E i \in 1..Len(o.results) : Unreadable(o.results[i])

\* C3: get_weather_for_observation never raises; for a network failure, a
\* non-2xx status or a malformed body it returns None.
C3_NeverPropagates ==
    weatherResult.kind # "pending" =>
        /\ weatherResult.kind = "return"
        /\ FailedAnswer(apiOutcome) => weatherResult.value = NoWeather

\* C6 as stated: the returned sample holds the value of the FIRST record of
\* each datatype.
C6_FirstRecordWins ==
    (weatherResult.kind = "return" /\ weatherResult.value.present) =>
        /\ weatherResult.value.avg_temp = FirstValue(apiOutcome.results, "TAVG")
        /\ weatherResult.value.rain = FirstValue(apiOutcome.results, "PRCP")

\* C6: whenever get_weather_for_observation returns a sample, avg_temp is the
\* value of the LAST record with datatype TAVG and rain the value of the LAST
\* record with datatype PRCP, in the order of the result list; a field whose
\* datatype does not occur stays null.
C6_LastRecordWins ==
    (weatherResult.kind = "return" /\ weatherResult.value.present) =>
        /\ weatherResult.value.avg_temp = LastValue(apiOutcome.results, "TAVG")
        /\ weatherResult.value.rain = LastValue(apiOutcome.results, "PRCP")

\* a sample was returned for an answer with two TAVG records of different
\* values and no PRCP record
C6_Witness ==
    /\ weatherResult.kind = "return"
    /\ weatherResult.value.present
    /\ Cardinality(Positions(apiOutcome.results, "TAVG")) = 2
    /\ FirstValue(apiOutcome.results, "TAVG") # LastValue(apiOutcome.results, "TAVG")
    /\ weatherResult.value.avg_temp = LastValue(apiOutcome.results, "TAVG")
    /\ weatherResult.value.rain = None

----------------------------------------------------------------------------
(* Properties of get_inaturalist_observations (SpecCollect) *)

\* the point in time (UTC hours) a timestamp denotes; the local clock's too
Instant(t) == t.wall - t.offset
InstantOfLocal(n, tz) == n - tz

\* a record the freshness test must skip: no timestamp, or one at or after
\* the cutoff
NotOlder(rec) ==
    \/ rec.time.kind = "null"
    \/ rec.time.kind = "iso" /\ rec.time.wall >= Cutoff(now)

\* C5 as stated: every entry's time_observed_at is non-null and denotes a
\* point in time strictly earlier than now - 2 days.
C5_EntriesOlderThanCutoff ==
    \A id \in DOMAIN observations :
        /\ observations[id].datetime.kind = "iso"
        /\ Instant(observations[id].datetime) < InstantOfLocal(Cutoff(now), tzLocal)

\* C5: every entry's time_observed_at is non-null and its wall-clock reading,
\* the UTC offset it carries being discarded, is strictly earlier than the
\* local wall clock - 2 days; a record without a timestamp, or whose reading
\* is at or after that cutoff, is not stored and skipping it raises nothing,
\* whatever its other fields are.
C5_EntriesWallClockOlder ==
    /\ [](\A id \in DOMAIN observations :
            /\ observations[id].datetime.kind = "iso"
            /\ observations[id].datetime.wall < Cutoff(now))
    /\ []((lastRec # NoRecord /\ NotOlder(lastRec)) => pc = "collecting" /\ exc = "")
    /\ [][(pc = "collecting" /\ pc' = "collecting" /\ NotOlder(lastRec'))
              => observations' = observations]_vars

\* a record exactly at the cutoff, with a null place_guess and no photo, was
\* skipped while another record is in the mapping
C5_Witness ==
    /\ pc = "collecting"
    /\ lastRec.time.kind = "iso"
    /\ lastRec.time.wall = Cutoff(now)
    /\ lastRec.place.kind = "null"
    /\ lastRec.photos = 0
    /\ lastRec.id \in DOMAIN observations

----------------------------------------------------------------------------
(* Properties of the whole run (Spec) *)

Enriched == DOMAIN observations # {} /\ DOMAIN lookup = DOMAIN observations
TransportFailed == {id \in DOMAIN lookup : lookup[id] = "transport_error"}
LookedUp == {id \in DOMAIN lookup : lookup[id] = "ok"}

\* the climate API failed in transport for some observations and answered
\* the others
PartialFailure ==
    /\ Enriched
    /\ TransportFailed # {}
    /\ LookedUp # {}
    /\ TransportFailed \cup LookedUp = DOMAIN lookup

\* C4: when the climate API fails in transport for some, not all, of the
\* observations, each failed observation has weather None, the run reaches the
\* aggregation and finishes (an unreadable image apart), and the rows are those
\* of the species with samples: a species all of whose observations have null
\* weather has none.
C4_PartialFailureStillAggregates ==
    PartialFailure =>
        /\ \A id \in TransportFailed : ~observations[id].weather.present
        /\ pc = "crashed" => exc = "UnidentifiedImageError"
        /\ pc = "returned" =>
            /\ aggResult.kind = "return"
            /\ \A s \in Labels(observations) :
                (\A k \in DOMAIN observations :
                    observations[k].species = s => ~observations[k].weather.present)
                    => s \notin RowSpecies

BioFailed == bioOutcome # None /\ Val(bioOutcome) \in BioFailures

\* C7: if the biodiversity request fails, the collector returns an empty
\* mapping without raising, and main prints "No observations found." and
\* returns: no climate request, no image download, no rendering.
C7_BioFailureEndsQuietly ==
    BioFailed =>
        /\ pc \in {"check_observations", "returned"}
        /\ exc = ""
        /\ observations = <<>>
        /\ pc = "returned" => "none_found" \in printed
        /\ climateReqs = 0 /\ imageReqs = 0
        /\ files = {} /\ shown = {}
        /\ aggResult.kind = "pending" /\ "charts" \notin printed

\* the run has returned after a non-2xx answer of the biodiversity API
C7_Witness ==
    /\ bioOutcome = Some("HTTPError")
    /\ pc = "returned"
    /\ "none_found" \in printed
    /\ bioReqs = 1

NotAnInteger(x) == x # None /\ Val(x) \notin IntLiterals

\* C8: if the text typed at either prompt is not an integer, main prints the
\* validation message and exits: no request of any kind is ever issued and
\* the spinner thread is never started.
C8_InvalidInputExitsBeforeAnyRequest ==
    (NotAnInteger(taxonInput) \/ NotAnInteger(countInput)) =>
        /\ pc = "exited"
        /\ "invalid" \in printed
        /\ bioReqs = 0 /\ climateReqs = 0 /\ imageReqs = 0
        /\ spinner = "unstarted"
        /\ NotAnInteger(taxonInput) => countInput = None

\* the second prompt was answered "abc" after an integer at the first
C8_Witness ==
    /\ taxonInput = Some("12")
    /\ countInput = Some("abc")
    /\ pc = "exited"

\* C9: in every run in which the spinner thread was started, by the time main
\* has returned the flag is set, the spinner has seen it, printed "Done!" and
\* ended.
C9_SpinnerAlwaysFinishes ==
    (pc = "returned" /\ spinner # "unstarted") =>
        /\ done
        /\ spinner = "terminated"
        /\ "Done!" \in printed

\* C10: when plot_observations_on_map has returned, no file written by
\* download_image is left on disk; while it runs, no displayed thumbnail's
\* file is on disk when the next download begins.
C10_NoThumbnailRemains ==
    /\ pc = "aggregate" => files = {}
    /\ pc = "mapping" => shown \cap files = {}

====
